---- MODULE Spec2Model ----
(***************************************************************************)
(* boop-relay: a line-oriented TLS relay.  The model covers the protocol   *)
(* codec (message.rs), the credential check (clients.rs) and the           *)
(* per-connection session task handle_connection with the shared           *)
(* connection table (main.rs).                                             *)
(*                                                                         *)
(* Text is modelled as sequences of one-character strings, so that the     *)
(* parser and the renderer are computed character by character.            *)
(***************************************************************************)
EXTENDS Integers, Sequences, FiniteSets, TLC

\* ------------------------------------------------------------------ bounds

\* Number of session tasks spawned by the accept loop.
MaxSess == 2
\* Total number of lines the clients send, over all sessions.
MaxLines == 3

Sess == 1..MaxSess

\* ------------------------------------------------------------ text helpers

NL == "\n"
SP == " "

Whitespace == {" ", "\n", "\t", "\r"}

LowerAlpha == <<"a","b","c","d","e","f","g","h","i","j","k","l","m",
                "n","o","p","q","r","s","t","u","v","w","x","y","z">>
UpperAlpha == <<"A","B","C","D","E","F","G","H","I","J","K","L","M",
                "N","O","P","Q","R","S","T","U","V","W","X","Y","Z">>

\* Mutant of UpperChar: the character as it stands.
UpperChar_asIs(c) == c

\* char::to_ascii_uppercase
UpperChar(c) ==
    IF \E i \in 1..Len(LowerAlpha) : LowerAlpha[i] = c
    THEN UpperAlpha[CHOOSE i \in 1..Len(LowerAlpha) : LowerAlpha[i] = c]
    ELSE c

\* str::to_ascii_uppercase
to_ascii_uppercase(s) == [i \in 1..Len(s) |-> UpperChar(s[i])]

\* str::trim: drops leading and trailing whitespace
RECURSIVE TrimStart(_)
TrimStart(s) ==
    IF s # <<>> /\ Head(s) \in Whitespace THEN TrimStart(Tail(s)) ELSE s

RECURSIVE TrimEnd(_)
TrimEnd(s) ==
    IF s # <<>> /\ s[Len(s)] \in Whitespace
    THEN TrimEnd(SubSeq(s, 1, Len(s) - 1))
    ELSE s

trim(s) == TrimEnd(TrimStart(s))

\* str::split(" "): the pieces between single spaces, empty pieces included
RECURSIVE split(_)
split(s) ==
    IF \E i \in 1..Len(s) : s[i] = SP
    THEN LET i == CHOOSE j \in 1..Len(s) :
                      s[j] = SP /\ \A k \in 1..(j - 1) : s[k] # SP
         IN  <<SubSeq(s, 1, i - 1)>> \o split(SubSeq(s, i + 1, Len(s)))
    ELSE <<s>>

\* -------------------------------------------------------------- message.rs

T_CONNECT    == <<"C","O","N","N","E","C","T">>
T_DISCONNECT == <<"D","I","S","C","O","N","N","E","C","T">>
T_PING       == <<"P","I","N","G">>
T_BOOP       == <<"B","O","O","P">>
T_AYT        == <<"A","Y","T">>
T_HEY        == <<"H","E","Y">>
T_NO         == <<"N","O">>
T_BYE        == <<"B","Y","E">>
T_PONG       == <<"P","O","N","G">>
T_ERROR      == <<"E","R","R","O","R">>
T_ONLINE     == <<"O","N","L","I","N","E">>
T_AFK        == <<"A","F","K">>

T_NOT_AVAILABLE == <<"N","O","T","_","A","V","A","I","L","A","B","L","E">>
T_MALFORMED_COMMAND ==
    <<"M","A","L","F","O","R","M","E","D","_","C","O","M","M","A","N","D">>
T_MALFORMED_ARGUMENTS ==
    <<"M","A","L","F","O","R","M","E","D","_","A","R","G","U","M","E","N","T","S">>
T_PROTOCOL_MISMATCH ==
    <<"P","R","O","T","O","C","O","L","_","M","I","S","M","A","T","C","H">>

\* enum MessageErrorKind
MessageErrorKind ==
    {"NotAvailable", "MalformedCommand", "MalformedArguments", "ProtocolMismatch"}

\* enum MessageType: a variant tag, its string arguments, and the error kind
\* carried by ERROR ("None" for the other variants)
Msg(type, args) == [type |-> type, args |-> args, kind |-> "None"]
ErrorMsg(kind)  == [type |-> "ERROR", args |-> <<>>, kind |-> kind]

\* Result<MessageType, ParserError>
Ok(m)   == [ok |-> TRUE, msg |-> m, err |-> "None"]
Err(e)  == [ok |-> FALSE, msg |-> Msg("NONE", <<>>), err |-> e]

\* Mutant of IntoErrorKind: the two codes exchanged.
IntoErrorKind_swapped(e) ==
    IF e = "UnknownMessageType" THEN "MalformedArguments" ELSE "MalformedCommand"

\* impl Into<MessageErrorKind> for ParserError
IntoErrorKind(e) ==
    IF e = "UnknownMessageType" THEN "MalformedCommand" ELSE "MalformedArguments"

\* fn connect
connect(args) ==
    IF Len(args) = 2 THEN Ok(Msg("CONNECT", <<args[1], args[2]>>))
    ELSE Err("UnknownArguments")

\* fn boop / ayt / online / afk: exactly one argument
OneArg(type, args) ==
    IF Len(args) = 1 THEN Ok(Msg(type, <<args[1]>>))
    ELSE Err("UnknownArguments")

\* fn error
error(args) ==
    IF Len(args) = 1
    THEN CASE args[1] = T_NOT_AVAILABLE       -> Ok(ErrorMsg("NotAvailable"))
           [] args[1] = T_MALFORMED_COMMAND   -> Ok(ErrorMsg("MalformedCommand"))
           [] args[1] = T_MALFORMED_ARGUMENTS -> Ok(ErrorMsg("MalformedArguments"))
           [] args[1] = T_PROTOCOL_MISMATCH   -> Ok(ErrorMsg("ProtocolMismatch"))
           [] OTHER                           -> Err("UnknownArguments")
    ELSE Err("UnknownArguments")

NoArgCommands  == {T_DISCONNECT, T_PING, T_HEY, T_NO, T_PONG, T_BYE}
ArgCommands    == {T_CONNECT, T_BOOP, T_AYT, T_ERROR, T_ONLINE, T_AFK}

\* the variant tag of a command token
TypeOf(tok) ==
    CASE tok = T_CONNECT    -> "CONNECT"
      [] tok = T_DISCONNECT -> "DISCONNECT"
      [] tok = T_PING       -> "PING"
      [] tok = T_BOOP       -> "BOOP"
      [] tok = T_AYT        -> "AYT"
      [] tok = T_HEY        -> "HEY"
      [] tok = T_NO         -> "NO"
      [] tok = T_BYE        -> "BYE"
      [] tok = T_PONG       -> "PONG"
      [] tok = T_ERROR      -> "ERROR"
      [] tok = T_ONLINE     -> "ONLINE"
      [] tok = T_AFK        -> "AFK"

\* fn get_message_type_from_text
get_message_type_from_text(cmd, args) ==
    LET up == to_ascii_uppercase(cmd) IN
    IF Len(args) = 0
    THEN CASE up \in NoArgCommands -> Ok(Msg(TypeOf(up), <<>>))
           [] up \in ArgCommands   -> Err("UnknownArguments")
           [] OTHER                -> Err("UnknownMessageType")
    ELSE CASE up = T_CONNECT       -> connect(args)
           [] up = T_ERROR         -> error(args)
           [] up \in ArgCommands \ {T_CONNECT, T_ERROR}
                                   -> OneArg(TypeOf(up), args)
           [] up \in NoArgCommands -> Err("UnknownArguments")
           [] OTHER                -> Err("UnknownMessageType")

\* fn parse_message
parse_message(msg) ==
    LET cmd0 == IF msg # <<>> /\ msg[Len(msg)] = NL
                THEN SubSeq(msg, 1, Len(msg) - 1) ELSE msg
        cmd  == trim(cmd0)
        sp   == split(cmd)
    IN  get_message_type_from_text(Head(sp), Tail(sp))

\* Mutant of error_text: every kind renders as NOT_AVAILABLE.
error_text_notAvailable(kind) == T_NOT_AVAILABLE

\* fn error_text
error_text(kind) ==
    CASE kind = "NotAvailable"       -> T_NOT_AVAILABLE
      [] kind = "MalformedCommand"   -> T_MALFORMED_COMMAND
      [] kind = "MalformedArguments" -> T_MALFORMED_ARGUMENTS
      [] kind = "ProtocolMismatch"   -> T_PROTOCOL_MISMATCH

\* the command token a variant renders with
TokenOf(type) ==
    CASE type = "CONNECT"    -> T_CONNECT
      [] type = "DISCONNECT" -> T_DISCONNECT
      [] type = "PING"       -> T_PING
      [] type = "BOOP"       -> T_BOOP
      [] type = "AYT"        -> T_AYT
      [] type = "HEY"        -> T_HEY
      [] type = "NO"         -> T_NO
      [] type = "BYE"        -> T_BYE
      [] type = "PONG"       -> T_PONG
      [] type = "ERROR"      -> T_ERROR
      [] type = "ONLINE"     -> T_ONLINE
      [] type = "AFK"        -> T_AFK

\* fn create_message_text
create_message_text(m) ==
    CASE m.type = "CONNECT" ->
            T_CONNECT \o <<SP>> \o m.args[1] \o <<SP>> \o m.args[2] \o <<NL>>
      [] m.type = "ERROR" ->
            T_ERROR \o <<SP>> \o error_text(m.kind) \o <<NL>>
      [] m.type \in {"BOOP", "AYT", "ONLINE", "AFK"} ->
            TokenOf(m.type) \o <<SP>> \o m.args[1] \o <<NL>>
      [] OTHER ->
            TokenOf(m.type) \o <<NL>>

\* -------------------------------------------------------------- clients.rs

K_a == <<"a">>
K_b == <<"b">>
K_c == <<"c">>
P_p == <<"p">>
P_q == <<"q">>

\* A stored hash string: either a well-formed hash of one password, or a
\* string PasswordHash::new rejects.
HashOf(pw) == [parses |-> TRUE, pw |-> pw]
BadHash    == [parses |-> FALSE, pw |-> <<>>]

\* struct Client { key, hash }, the list read_clients_file returns.  The
\* list holds a record with an unparsable hash and a second record for "a".
Clients ==
    << [key |-> K_a, hash |-> HashOf(P_p)],
       [key |-> K_b, hash |-> HashOf(P_q)],
       [key |-> K_c, hash |-> BadHash],
       [key |-> K_a, hash |-> HashOf(P_q)] >>

\* Argon2::verify_password(password, parsed_hash).is_ok()
verify_password(password, hash) == hash.pw = password

\* Mutant of client_login_is_valid: the last record of the key decides.
client_login_is_valid_last(key, password, clients) ==
    IF \E i \in 1..Len(clients) : clients[i].key = key
    THEN LET i == CHOOSE j \in 1..Len(clients) :
                      /\ clients[j].key = key
                      /\ \A k \in (j + 1)..Len(clients) : clients[k].key # key
             client == clients[i]
         IN  IF client.hash.parses
             THEN IF verify_password(password, client.hash)
                  THEN "OkTrue" ELSE "OkFalse"
             ELSE "Err"
    ELSE "OkFalse"

\* fn client_login_is_valid: Result<bool, ()> as "OkTrue" / "OkFalse" / "Err"
client_login_is_valid(key, password, clients) ==
    IF \E i \in 1..Len(clients) : clients[i].key = key
    THEN LET i == CHOOSE j \in 1..Len(clients) :
                      /\ clients[j].key = key
                      /\ \A k \in 1..(j - 1) : clients[k].key # key
             client == clients[i]
         IN  IF client.hash.parses
             THEN IF verify_password(password, client.hash)
                  THEN "OkTrue" ELSE "OkFalse"
             ELSE "Err"
    ELSE "OkFalse"

\* ----------------------------------------------------------------- main.rs

\* The lines the clients may send.
L_CONNECT(k, p) == T_CONNECT \o <<SP>> \o k \o <<SP>> \o p \o <<NL>>
L_PING       == T_PING \o <<NL>>
L_DISCONNECT == T_DISCONNECT \o <<NL>>
L_BOOP(k)    == T_BOOP \o <<SP>> \o k \o <<NL>>
L_AYT(k)     == T_AYT \o <<SP>> \o k \o <<NL>>
L_HEY        == T_HEY \o <<NL>>
L_FOO        == <<"F","O","O", NL>>
L_BOOP0      == T_BOOP \o <<NL>>

ClientLines ==
    { L_CONNECT(K_a, P_p), L_CONNECT(K_b, P_q), L_CONNECT(K_a, P_q),
      L_CONNECT(K_c, P_p), L_PING, L_DISCONNECT, L_BOOP(K_a), L_AYT(K_a),
      L_HEY, L_FOO, L_BOOP0 }

VARIABLES
    task,          \* each session task's place in handle_connection and locals
    chan,          \* each session's delivery channel (what rx still holds)
    out,           \* the lines written to each session's client
    connections,   \* SharedState.connections: key -> set of connection ids
    lock,          \* the holder of the state mutex, 0 when free
    nread          \* lines read from clients so far, over all sessions

vars == <<task, chan, out, connections, lock, nread>>

NoMsg == Msg("NONE", <<>>)

\* a parse result local that holds nothing yet
NoResult == [ok |-> FALSE, msg |-> NoMsg, err |-> "None"]

\* The locals of handle_connection before the first read:
\*   pc            where the task stands
\*   cmd_buffer    the first line read (handshake)
\*   parser_res    parse_message(&cmd_buffer)
\*   buf           the line read in the current loop iteration
\*   parse_result  parse_message(&buf)
\*   login_result  what client_login_is_valid returned, "None" before
\*   client_key    the authenticated identity
\*   was_pinged    the watchdog's liveness flag
\*   msg           the answer the AYT arm computed and is about to send
Locals ==
    [pc |-> "hs_read", cmd_buffer |-> <<>>, parser_res |-> NoResult,
     buf |-> <<>>, parse_result |-> NoResult,
     login_result |-> "None", client_key |-> <<>>, was_pinged |-> FALSE,
     msg |-> NoMsg]

\* The places handle_connection returns from.
Returned ==
    { "ret_hs_read_err", "ret_hs_eof", "ret_hs_error", "ret_hs_no",
      "ret_hey_write_err", "ret_afk_shutdown_err", "ret_afk", "ret_eof",
      "ret_bye", "ret_pong_write_err", "ret_ayt_write_err", "ret_error",
      "ret_read_err", "ret_recv_write_err" }

\* A return drops the task's locals; what is left is where it returned.
Return(site) == [Locals EXCEPT !.pc = site]

\* A session task that has not returned.
Running(s) == task[s].pc \notin Returned

\* The connection id of session s is in the table (under any key).
Attached(s) == \E k \in DOMAIN connections : s \in connections[k]

Init ==
    /\ task = [s \in Sess |-> Locals]
    /\ chan = [s \in Sess |-> <<>>]
    /\ out = [s \in Sess |-> <<>>]
    /\ connections = << >>
    /\ lock = 0
    /\ nread = 0

\* fn send_message: the write either succeeds, and the rendered line reaches
\* the client, or fails, and nothing does.
send_message(s, m, written) ==
    IF written THEN [out EXCEPT ![s] = Append(@, create_message_text(m))]
    ELSE out

\* Mutant of add_connection: the identity's inner map is replaced by a new
\* one instead of being extended.
add_connection_replace(conns, key, id) ==
    [k \in DOMAIN conns \cup {key} |-> IF k = key THEN {id} ELSE conns[k]]

\* fn add_connection: entry(key).or_insert(HashMap::new()).insert(id, tx)
add_connection(conns, key, id) ==
    IF key \in DOMAIN conns
    THEN [conns EXCEPT ![key] = @ \cup {id}]
    ELSE conns @@ (key :> {id})

\* HashMap::retain(|_, inner_map| inner_map.len() > 0)
retain(conns) ==
    [k \in {x \in DOMAIN conns : conns[x] # {}} |-> conns[k]]

\* Mutant of remove_connection: the identity is removed with all its ids.
remove_connection_wholeKey(conns, key, id) ==
    [k \in DOMAIN conns \ {key} |-> conns[k]]

\* Mutant of remove_connection: the retain pass is left out.
remove_connection_noretain(conns, key, id) ==
    IF key \in DOMAIN conns
    THEN [conns EXCEPT ![key] = @ \ {id}]
    ELSE conns

\* fn remove_connection: entry(key).and_modify(remove id), then retain
remove_connection(conns, key, id) ==
    retain(IF key \in DOMAIN conns
           THEN [conns EXCEPT ![key] = @ \ {id}]
           ELSE conns)

\* The channel.send loop of the BOOP arm: every handle in the partner's inner
\* map is sent m; a send to a channel whose receiver was dropped (its task
\* has returned) fails and is ignored.
route(ch, conns, partner, m) ==
    [t \in Sess |->
        IF partner \in DOMAIN conns /\ t \in conns[partner] /\ Running(t)
        THEN Append(ch[t], m)
        ELSE ch[t]]

\* state.connections.contains_key(&partner_key) of the AYT arm
is_present(conns, partner) == partner \in DOMAIN conns

\* -------------------------------------------------- handshake (lines 180-232)

\* read_line returned Err
HsReadErr(s) ==
    /\ task[s].pc = "hs_read"
    /\ task' = [task EXCEPT ![s] = Return("ret_hs_read_err")]
    /\ UNCHANGED <<chan, out, connections, lock, nread>>

\* read_line returned Ok(0)
HsEof(s) ==
    /\ task[s].pc = "hs_read"
    /\ task' = [task EXCEPT ![s] = Return("ret_hs_eof")]
    /\ UNCHANGED <<chan, out, connections, lock, nread>>

\* read_line returned a line: parse_message(&cmd_buffer) and, for a CONNECT,
\* client_login_is_valid(&key, &password, clients); the reply is still to be
\* written
HsRead(s, line) ==
    /\ task[s].pc = "hs_read"
    /\ nread < MaxLines
    /\ nread' = nread + 1
    /\ LET r == parse_message(line) IN
       task' = [task EXCEPT
                  ![s].cmd_buffer = line,
                  ![s].parser_res = r,
                  ![s].login_result =
                      IF r.ok /\ r.msg.type = "CONNECT"
                      THEN client_login_is_valid(r.msg.args[1], r.msg.args[2],
                                                 Clients)
                      ELSE "None",
                  ![s].pc = "hs_reply"]
    /\ UNCHANGED <<chan, out, connections, lock>>

\* the first line does not parse: send_error_and_close(err.into())
HsParseError(s, written) ==
    /\ task[s].pc = "hs_reply"
    /\ ~task[s].parser_res.ok
    /\ out' = send_message(s,
                 ErrorMsg(IntoErrorKind(task[s].parser_res.err)),
                 written)
    /\ task' = [task EXCEPT ![s] = Return("ret_hs_error")]
    /\ UNCHANGED <<chan, connections, lock, nread>>

\* Mutant of HsNotConnect: the error is reported as a malformed command.
HsNotConnect_wrongCode(s, written) ==
    /\ task[s].pc = "hs_reply"
    /\ task[s].parser_res.ok
    /\ task[s].parser_res.msg.type # "CONNECT"
    /\ out' = send_message(s, ErrorMsg("MalformedCommand"), written)
    /\ task' = [task EXCEPT ![s] = Return("ret_hs_error")]
    /\ UNCHANGED <<chan, connections, lock, nread>>

\* the first line parses, but not to CONNECT
HsNotConnect(s, written) ==
    /\ task[s].pc = "hs_reply"
    /\ task[s].parser_res.ok
    /\ task[s].parser_res.msg.type # "CONNECT"
    /\ out' = send_message(s, ErrorMsg("ProtocolMismatch"), written)
    /\ task' = [task EXCEPT ![s] = Return("ret_hs_error")]
    /\ UNCHANGED <<chan, connections, lock, nread>>

\* LOGIN WRONG: login_result.is_err() || !login_result.unwrap(): NO, close
HsLoginWrong(s, written) ==
    /\ task[s].pc = "hs_reply"
    /\ task[s].parser_res.ok
    /\ task[s].parser_res.msg.type = "CONNECT"
    /\ task[s].login_result # "OkTrue"
    /\ out' = send_message(s, Msg("NO", <<>>), written)
    /\ task' = [task EXCEPT ![s] = Return("ret_hs_no")]
    /\ UNCHANGED <<chan, connections, lock, nread>>

\* Mutant of HsLoginCorrect: only Ok(false) refuses the login, the is_err()
\* test is missing.
HsLoginCorrect_errAccepted(s, written) ==
    /\ task[s].pc = "hs_reply"
    /\ task[s].parser_res.ok
    /\ task[s].parser_res.msg.type = "CONNECT"
    /\ task[s].login_result # "OkFalse"
    /\ out' = send_message(s, Msg("HEY", <<>>), written)
    /\ task' = [task EXCEPT ![s] =
                  IF written
                  THEN [@ EXCEPT
                          !.client_key = task[s].parser_res.msg.args[1],
                          !.was_pinged = TRUE,
                          !.pc = "attach"]
                  ELSE Return("ret_hey_write_err")]
    /\ UNCHANGED <<chan, connections, lock, nread>>

\* LOGIN CORRECT: HEY, then the locals of lines 217-229; add_connection is
\* still to come
HsLoginCorrect(s, written) ==
    /\ task[s].pc = "hs_reply"
    /\ task[s].parser_res.ok
    /\ task[s].parser_res.msg.type = "CONNECT"
    /\ task[s].login_result = "OkTrue"
    /\ out' = send_message(s, Msg("HEY", <<>>), written)
    /\ task' = [task EXCEPT ![s] =
                  IF written
                  THEN [@ EXCEPT
                          !.client_key =
                              task[s].parser_res.msg.args[1],
                          !.was_pinged = TRUE,
                          !.pc = "attach"]
                  ELSE Return("ret_hey_write_err")]
    /\ UNCHANGED <<chan, connections, lock, nread>>

\* add_connection(&client_key, &connection_id, tx, &state).await
AddConnection(s) ==
    /\ task[s].pc = "attach"
    /\ lock = 0
    /\ connections' = add_connection(connections, task[s].client_key, s)
    /\ task' = [task EXCEPT ![s].pc = "loop"]
    /\ UNCHANGED <<chan, out, lock, nread>>

\* ------------------------------------------------ event loop (lines 234-308)

\* watchdog.tick() with was_pinged set: clear it
Tick(s) ==
    /\ task[s].pc = "loop"
    /\ task[s].was_pinged
    /\ task' = [task EXCEPT ![s].was_pinged = FALSE]
    /\ UNCHANGED <<chan, out, connections, lock, nread>>

\* Mutant of TickAfk: the tick ends the session whatever the flag says.
TickAfk_anyFlag(s, shut_ok) ==
    /\ task[s].pc = "loop"
    /\ IF shut_ok
       THEN /\ lock = 0
            /\ connections' =
                  remove_connection(connections, task[s].client_key, s)
            /\ task' = [task EXCEPT ![s] = Return("ret_afk")]
       ELSE /\ connections' = connections
            /\ task' = [task EXCEPT ![s] = Return("ret_afk_shutdown_err")]
    /\ chan' = [chan EXCEPT ![s] = <<>>]
    /\ UNCHANGED <<out, lock, nread>>

\* watchdog.tick() with was_pinged clear: writehalf.shutdown().await?, and
\* only when that succeeded, remove_connection(..).await and return Ok
TickAfk(s, shut_ok) ==
    /\ task[s].pc = "loop"
    /\ ~task[s].was_pinged
    /\ IF shut_ok
       THEN /\ lock = 0
            /\ connections' =
                  remove_connection(connections, task[s].client_key, s)
            /\ task' = [task EXCEPT ![s] = Return("ret_afk")]
       ELSE /\ connections' = connections
            /\ task' = [task EXCEPT ![s] = Return("ret_afk_shutdown_err")]
    /\ chan' = [chan EXCEPT ![s] = <<>>]
    /\ UNCHANGED <<out, lock, nread>>

\* read_line returned Ok(0): remove_connection(..).await, return Err
ReadEof(s) ==
    /\ task[s].pc = "loop"
    /\ lock = 0
    /\ connections' = remove_connection(connections, task[s].client_key, s)
    /\ task' = [task EXCEPT ![s] = Return("ret_eof")]
    /\ chan' = [chan EXCEPT ![s] = <<>>]
    /\ UNCHANGED <<out, lock, nread>>

\* read_line returned Err: remove_connection(..).await, shutdown, return
ReadErr(s) ==
    /\ task[s].pc = "loop"
    /\ lock = 0
    /\ connections' = remove_connection(connections, task[s].client_key, s)
    /\ task' = [task EXCEPT ![s] = Return("ret_read_err")]
    /\ chan' = [chan EXCEPT ![s] = <<>>]
    /\ UNCHANGED <<out, lock, nread>>

\* read_line returned a line into buf: parse_message(&buf) selects the arm
ReadLine(s, line) ==
    /\ task[s].pc = "loop"
    /\ nread < MaxLines
    /\ nread' = nread + 1
    /\ task' = [task EXCEPT ![s].buf = line,
                             ![s].parse_result = parse_message(line),
                             ![s].pc = "handle"]
    /\ UNCHANGED <<chan, out, connections, lock>>

\* the message the arm in progress is handling
Handling(s, type) ==
    /\ task[s].pc = "handle"
    /\ task[s].parse_result.ok
    /\ task[s].parse_result.msg.type = type

\* DISCONNECT arm: remove_connection(..).await, then
\* send_message_and_close(BYE)
Disconnect(s, written) ==
    /\ Handling(s, "DISCONNECT")
    /\ lock = 0
    /\ connections' = remove_connection(connections, task[s].client_key, s)
    /\ out' = send_message(s, Msg("BYE", <<>>), written)
    /\ task' = [task EXCEPT ![s] = Return("ret_bye")]
    /\ chan' = [chan EXCEPT ![s] = <<>>]
    /\ UNCHANGED <<lock, nread>>

\* Mutant of Ping: PONG is written twice.
Ping_twice(s, written) ==
    /\ Handling(s, "PING")
    /\ out' = [out EXCEPT ![s] =
                  IF written
                  THEN @ \o <<create_message_text(Msg("PONG", <<>>)),
                              create_message_text(Msg("PONG", <<>>))>>
                  ELSE @]
    /\ IF written
       THEN /\ task' = [task EXCEPT ![s].was_pinged = TRUE,
                                    ![s].buf = <<>>,
                                    ![s].parse_result = NoResult,
                                    ![s].pc = "loop"]
            /\ chan' = chan
       ELSE /\ task' = [task EXCEPT ![s] = Return("ret_pong_write_err")]
            /\ chan' = [chan EXCEPT ![s] = <<>>]
    /\ UNCHANGED <<connections, lock, nread>>

\* PING arm: send PONG, then set was_pinged
Ping(s, written) ==
    /\ Handling(s, "PING")
    /\ out' = send_message(s, Msg("PONG", <<>>), written)
    /\ IF written
       THEN /\ task' = [task EXCEPT ![s].was_pinged = TRUE,
                                    ![s].buf = <<>>,
                                    ![s].parse_result = NoResult,
                                    ![s].pc = "loop"]
            /\ chan' = chan
       ELSE /\ task' = [task EXCEPT ![s] = Return("ret_pong_write_err")]
            /\ chan' = [chan EXCEPT ![s] = <<>>]
    /\ UNCHANGED <<connections, lock, nread>>

\* Mutant of Boop: the message carries the partner named in the request.
Boop_partnerAsSender(s) ==
    /\ Handling(s, "BOOP")
    /\ lock = 0
    /\ chan' = route(chan, connections, task[s].parse_result.msg.args[1],
                     Msg("BOOP", <<task[s].parse_result.msg.args[1]>>))
    /\ task' = [task EXCEPT ![s].buf = <<>>,
                            ![s].parse_result = NoResult, ![s].pc = "loop"]
    /\ UNCHANGED <<out, connections, lock, nread>>

\* BOOP arm, under the state mutex: the send loop; nothing is written back
Boop(s) ==
    /\ Handling(s, "BOOP")
    /\ lock = 0
    /\ chan' = route(chan, connections, task[s].parse_result.msg.args[1],
                     Msg("BOOP", <<task[s].client_key>>))
    /\ task' = [task EXCEPT ![s].buf = <<>>,
                                    ![s].parse_result = NoResult, ![s].pc = "loop"]
    /\ UNCHANGED <<out, connections, lock, nread>>

\* AYT arm: take the state mutex and look the partner up
AytLookup(s) ==
    /\ Handling(s, "AYT")
    /\ lock = 0
    /\ lock' = s
    /\ LET partner_key == task[s].parse_result.msg.args[1] IN
       task' = [task EXCEPT
                  ![s].msg = IF is_present(connections, partner_key)
                             THEN Msg("ONLINE", <<partner_key>>)
                             ELSE Msg("AFK", <<partner_key>>),
                  ![s].pc = "ayt_send"]
    /\ UNCHANGED <<chan, out, connections, nread>>

\* Mutant of AytSend: a written answer clears was_pinged.
AytSend_clears(s, written) ==
    /\ task[s].pc = "ayt_send"
    /\ out' = send_message(s, task[s].msg, written)
    /\ lock' = 0
    /\ IF written
       THEN /\ task' = [task EXCEPT ![s].msg = NoMsg,
                                    ![s].buf = <<>>,
                                    ![s].parse_result = NoResult,
                                    ![s].was_pinged = FALSE,
                                    ![s].pc = "loop"]
            /\ chan' = chan
       ELSE /\ task' = [task EXCEPT ![s] = Return("ret_ayt_write_err")]
            /\ chan' = [chan EXCEPT ![s] = <<>>]
    /\ UNCHANGED <<connections, nread>>

\* AYT arm: send_message(msg).await? with the mutex guard still alive; the
\* guard is dropped at the end of the arm or by the early return
AytSend(s, written) ==
    /\ task[s].pc = "ayt_send"
    /\ out' = send_message(s, task[s].msg, written)
    /\ lock' = 0
    /\ IF written
       THEN /\ task' = [task EXCEPT ![s].msg = NoMsg,
                                    ![s].buf = <<>>,
                                    ![s].parse_result = NoResult,
                                    ![s].pc = "loop"]
            /\ chan' = chan
       ELSE /\ task' = [task EXCEPT ![s] = Return("ret_ayt_write_err")]
            /\ chan' = [chan EXCEPT ![s] = <<>>]
    /\ UNCHANGED <<connections, nread>>

\* the `_` arm (a message that is no request) and the parse failure arm:
\* send_error_and_close, and return
ProtocolError(s, written) ==
    /\ task[s].pc = "handle"
    /\ LET r == task[s].parse_result IN
       /\ r.ok => r.msg.type \notin {"DISCONNECT", "PING", "BOOP", "AYT"}
       /\ out' = send_message(s,
                    IF r.ok THEN ErrorMsg("ProtocolMismatch")
                    ELSE ErrorMsg(IntoErrorKind(r.err)),
                    written)
    /\ task' = [task EXCEPT ![s] = Return("ret_error")]
    /\ chan' = [chan EXCEPT ![s] = <<>>]
    /\ UNCHANGED <<connections, lock, nread>>

\* Mutant of Recv: the message put on the channel last is written first.
Recv_newestFirst(s, written) ==
    /\ task[s].pc = "loop"
    /\ chan[s] # <<>>
    /\ out' = send_message(s, chan[s][Len(chan[s])], written)
    /\ IF written
       THEN /\ chan' = [chan EXCEPT ![s] = SubSeq(@, 1, Len(@) - 1)]
            /\ task' = task
       ELSE /\ chan' = [chan EXCEPT ![s] = <<>>]
            /\ task' = [task EXCEPT ![s] = Return("ret_recv_write_err")]
    /\ UNCHANGED <<connections, lock, nread>>

\* Mutant of Recv: a written delivery sets was_pinged.
Recv_refreshes(s, written) ==
    /\ task[s].pc = "loop"
    /\ chan[s] # <<>>
    /\ out' = send_message(s, Head(chan[s]), written)
    /\ IF written
       THEN /\ chan' = [chan EXCEPT ![s] = Tail(@)]
            /\ task' = [task EXCEPT ![s].was_pinged = TRUE]
       ELSE /\ chan' = [chan EXCEPT ![s] = <<>>]
            /\ task' = [task EXCEPT ![s] = Return("ret_recv_write_err")]
    /\ UNCHANGED <<connections, lock, nread>>

\* Some(msg) = rx.recv(): send_message(msg).await?
Recv(s, written) ==
    /\ task[s].pc = "loop"
    /\ chan[s] # <<>>
    /\ out' = send_message(s, Head(chan[s]), written)
    /\ IF written
       THEN /\ chan' = [chan EXCEPT ![s] = Tail(@)]
            /\ task' = task
       ELSE /\ chan' = [chan EXCEPT ![s] = <<>>]
            /\ task' = [task EXCEPT ![s] = Return("ret_recv_write_err")]
    /\ UNCHANGED <<connections, lock, nread>>

Next ==
    \E s \in Sess :
        \/ HsReadErr(s)
        \/ HsEof(s)
        \/ \E line \in ClientLines : HsRead(s, line)
        \/ \E written \in BOOLEAN : HsParseError(s, written)
        \/ \E written \in BOOLEAN : HsNotConnect(s, written)
        \/ \E written \in BOOLEAN : HsLoginWrong(s, written)
        \/ \E written \in BOOLEAN : HsLoginCorrect(s, written)
        \/ AddConnection(s)
        \/ Tick(s)
        \/ \E shut_ok \in BOOLEAN : TickAfk(s, shut_ok)
        \/ ReadEof(s)
        \/ ReadErr(s)
        \/ \E line \in ClientLines : ReadLine(s, line)
        \/ \E written \in BOOLEAN : Disconnect(s, written)
        \/ \E written \in BOOLEAN : Ping(s, written)
        \/ Boop(s)
        \/ AytLookup(s)
        \/ \E written \in BOOLEAN : AytSend(s, written)
        \/ \E written \in BOOLEAN : ProtocolError(s, written)
        \/ \E written \in BOOLEAN : Recv(s, written)

Spec == Init /\ [][Next]_vars

\* ------------------------------------------------------------- properties

\* The lines of the wire protocol, as the clients see them.
Line_HEY  == <<"H","E","Y","\n">>
Line_NO   == <<"N","O","\n">>
Line_BYE  == <<"B","Y","E","\n">>
Line_ERROR(code) == <<"E","R","R","O","R"," ">> \o code \o <<"\n">>
ErrorLines ==
    { Line_ERROR(c) : c \in {T_NOT_AVAILABLE, T_MALFORMED_COMMAND,
                             T_MALFORMED_ARGUMENTS, T_PROTOCOL_MISMATCH} }

Last(q) == q[Len(q)]

\* The places of a task between the return of add_connection and the start
\* of its teardown: waiting in select!, or handling a line or an AYT answer.
InLoop(s) == task[s].pc \in {"loop", "handle", "ayt_send"}

\* C1: every (identity, session id) entry of the Presence Table belongs to a
\* session task that is still running and has completed its handshake; every
\* terminal path of an attached session removes its entry.
C1_EntriesAlive ==
    \A k \in DOMAIN connections : \A s \in connections[k] :
        Running(s) /\ InLoop(s)

\* C2: a session whose last written line is NO, BYE or ERROR(*) is not
\* attached in the Presence Table.
C2_LastLineNotAttached ==
    \A s \in Sess :
        (out[s] # <<>> /\ Last(out[s]) \in {Line_NO, Line_BYE} \cup ErrorLines)
            => ~Attached(s)

\* C3 as stated: a still-running session that has written HEY is attached.
C3_HeySentAttached ==
    \A s \in Sess :
        (Running(s) /\ out[s] # <<>> /\ out[s][1] = Line_HEY) => Attached(s)

\* C3 as amended: a session that has written HEY and whose add_connection has
\* returned is attached, under its authenticated identity, for as long as it
\* waits in its event loop or handles a line; HEY is the first line it wrote.
C3_LoopAttached ==
    \A s \in Sess :
        InLoop(s) =>
            /\ task[s].client_key \in DOMAIN connections
            /\ s \in connections[task[s].client_key]
            /\ out[s] # <<>>
            /\ out[s][1] = Line_HEY

\* C3 witness: a session waits in its loop, attached, while the other one
\* has written HEY and is not attached yet.
C3_Witness ==
    \E s, t \in Sess :
        /\ task[s].pc = "loop" /\ Attached(s)
        /\ task[t].pc = "attach" /\ out[t] = <<Line_HEY>> /\ ~Attached(t)

\* C4: a session found AFK by its watchdog (no PING handled in the window
\* that the tick ends) is detached from the Presence Table and closed.
C4_AfkDetached ==
    \A s \in Sess :
        task[s].pc \in {"ret_afk", "ret_afk_shutdown_err"} => ~Attached(s)

\* C5: handling BOOP P in a session of identity X hands exactly one BOOP(X)
\* to the delivery channel of every session attached under P, to no other
\* channel, and writes nothing to the sender's own client.
C5_BoopFanout ==
    [][\A s \in Sess :
          (Handling(s, "BOOP") /\ task'[s].pc = "loop") =>
              LET P == task[s].parse_result.msg.args[1]
                  X == task[s].client_key
              IN  /\ \A t \in Sess :
                        IF P \in DOMAIN connections /\ t \in connections[P]
                        THEN chan'[t] = Append(chan[t], Msg("BOOP", <<X>>))
                        ELSE chan'[t] = chan[t]
                  /\ out'[s] = out[s]]_vars

\* C6: the answer to AYT P is ONLINE P exactly when, at the lookup, some
\* session of identity P is live and past its handshake, and AFK P otherwise.
C6_AytAnswer ==
    [][\A s \in Sess :
          (Handling(s, "AYT") /\ task'[s].pc = "ayt_send") =>
              LET P == task[s].parse_result.msg.args[1]
                  present == \E t \in Sess :
                                InLoop(t) /\ task[t].client_key = P
              IN  task'[s].msg = IF present THEN Msg("ONLINE", <<P>>)
                                 ELSE Msg("AFK", <<P>>)]_vars

\* The (identity, password) pairs the credential file accepts: the first
\* record of an identity decides.
Accepted == {<<K_a, P_p>>, <<K_b, P_q>>}

\* The places of a task before add_connection, and the returns from there.
HandshakePlaces ==
    {"hs_read", "hs_reply", "attach", "ret_hs_read_err", "ret_hs_eof",
     "ret_hs_error", "ret_hs_no", "ret_hey_write_err"}

\* C7: a session is attached only after its first line parsed as
\* CONNECT(identity, password) and the oracle matched that pair; when the
\* oracle answers not-matched or bad-hash the session writes NO and nothing
\* else, returns, and is never attached.
C7_AttachOnlyAfterLogin ==
    /\ [](\A s \in Sess :
            /\ (Attached(s) /\ Running(s)) =>
                  /\ task[s].parser_res = parse_message(task[s].cmd_buffer)
                  /\ task[s].parser_res.ok
                  /\ task[s].parser_res.msg.type = "CONNECT"
                  /\ <<task[s].parser_res.msg.args[1],
                       task[s].parser_res.msg.args[2]>> \in Accepted
                  /\ task[s].login_result = "OkTrue"
                  /\ task[s].client_key = task[s].parser_res.msg.args[1]
                  /\ \A k \in DOMAIN connections :
                        s \in connections[k] => k = task[s].client_key
            /\ (task[s].pc = "hs_reply" /\ task[s].parser_res.ok
                  /\ task[s].parser_res.msg.type = "CONNECT") =>
                  (task[s].login_result = "OkTrue" <=>
                      <<task[s].parser_res.msg.args[1],
                        task[s].parser_res.msg.args[2]>> \in Accepted)
            /\ Attached(s) => task[s].pc \notin HandshakePlaces
            /\ task[s].pc = "ret_hs_no" =>
                  (~Attached(s) /\ out[s] \in {<<>>, <<Line_NO>>}))
    /\ [][\A s \in Sess :
            (task[s].login_result \in {"OkFalse", "Err"}
                /\ (task'[s] # task[s] \/ out'[s] # out[s])) =>
                  /\ task'[s].pc = "ret_hs_no"
                  /\ out'[s] \in {out[s], <<Line_NO>>}
                  /\ connections' = connections]_vars

\* C7 witness: one session was refused with NO after a bad-hash or
\* not-matched answer, the other is attached after a matched CONNECT.
C7_Witness ==
    \E s, t \in Sess :
        /\ task[s].pc = "ret_hs_no" /\ out[s] = <<Line_NO>> /\ ~Attached(s)
        /\ task[t].pc = "loop" /\ Attached(t)

\* the code a protocol error is answered with
ExpectedCode(r) ==
    IF r.ok THEN T_PROTOCOL_MISMATCH
    ELSE IF r.err = "UnknownMessageType" THEN T_MALFORMED_COMMAND
    ELSE T_MALFORMED_ARGUMENTS

\* a parse failure, or a message that is forbidden in the task's state
IsProtocolError(s) ==
    \/ /\ task[s].pc = "hs_reply"
       /\ task[s].parser_res.ok => task[s].parser_res.msg.type # "CONNECT"
    \/ /\ task[s].pc = "handle"
       /\ task[s].parse_result.ok =>
             task[s].parse_result.msg.type
                 \notin {"DISCONNECT", "PING", "BOOP", "AYT"}

\* C8: a protocol error is terminal in either state: the next thing the
\* session does is write the one ERROR line with the code of the error and
\* return; a session that has returned reads, handles and writes no more.
C8_ProtocolErrorTerminal ==
    [][\A s \in Sess :
          /\ (IsProtocolError(s)
                /\ (task'[s] # task[s] \/ out'[s] # out[s])) =>
                LET r == IF task[s].pc = "hs_reply" THEN task[s].parser_res
                         ELSE task[s].parse_result
                IN  /\ task'[s].pc \in {"ret_hs_error", "ret_error"}
                    /\ out'[s] \in
                          {out[s], Append(out[s], Line_ERROR(ExpectedCode(r)))}
          /\ ~Running(s) =>
                (task'[s] = task[s] /\ out'[s] = out[s] /\ chan'[s] = <<>>)
      ]_vars

\* C8 witness: an authenticated session was closed with PROTOCOL_MISMATCH,
\* another one was closed during the handshake with a MALFORMED code.
C8_Witness ==
    \E s, t \in Sess :
        /\ task[s].pc = "ret_error"
        /\ out[s] = <<Line_HEY, Line_ERROR(T_PROTOCOL_MISMATCH)>>
        /\ task[t].pc = "ret_hs_error"
        /\ out[t] \in {<<Line_ERROR(T_MALFORMED_COMMAND)>>,
                       <<Line_ERROR(T_MALFORMED_ARGUMENTS)>>}

\* C9: in the handshake, a first line that parses to a message other than
\* CONNECT is answered with ERROR PROTOCOL_MISMATCH and the task returns; the
\* oracle was not consulted and the table is not touched; EOF before a first
\* line ends the task with nothing written.
C9_HandshakeMismatch ==
    /\ [](\A s \in Sess :
            /\ (task[s].pc = "hs_reply"
                  /\ ~(task[s].parser_res.ok
                         /\ task[s].parser_res.msg.type = "CONNECT")) =>
                  (task[s].login_result = "None" /\ ~Attached(s))
            /\ task[s].pc \in {"ret_hs_eof", "ret_hs_error"} => ~Attached(s)
            /\ task[s].pc = "ret_hs_eof" => out[s] = <<>>)
    /\ [][\A s \in Sess :
            /\ (task[s].pc = "hs_reply" /\ task[s].parser_res.ok
                  /\ task[s].parser_res.msg.type # "CONNECT"
                  /\ (task'[s] # task[s] \/ out'[s] # out[s])) =>
                  /\ task'[s].pc = "ret_hs_error"
                  /\ out'[s] \in {<<>>, <<Line_ERROR(T_PROTOCOL_MISMATCH)>>}
                  /\ connections' = connections
            /\ (task[s].pc = "hs_read" /\ task'[s].pc = "ret_hs_eof") =>
                  (out'[s] = <<>> /\ connections' = connections)]_vars

\* C9 witness: one session was answered ERROR PROTOCOL_MISMATCH to its first
\* line, the other met EOF before any line.
C9_Witness ==
    \E s, t \in Sess :
        /\ task[s].pc = "ret_hs_error"
        /\ out[s] = <<Line_ERROR(T_PROTOCOL_MISMATCH)>>
        /\ task[t].pc = "ret_hs_eof" /\ out[t] = <<>>

\* C10: no identity of the table maps to an empty session set.
C10_NoEmptyInnerMap ==
    \A k \in DOMAIN connections : connections[k] # {}

\* C10 witness: one session has detached and returned while the other is
\* still attached, and the table holds exactly the identity of the latter.
C10_Witness ==
    \E s, t \in Sess :
        /\ task[s].pc \in {"ret_bye", "ret_eof", "ret_read_err", "ret_afk"}
        /\ task[t].pc = "loop"
        /\ DOMAIN connections = {task[t].client_key}
        /\ connections[task[t].client_key] = {t}

\* C11: a session that returned because writing PONG, the AYT answer or a
\* relayed delivery to its client failed has no entry left in the table.
C11_WriteFailureDetaches ==
    \A s \in Sess :
        task[s].pc \in {"ret_pong_write_err", "ret_ayt_write_err",
                        "ret_recv_write_err"} => ~Attached(s)

\* C12: no session task holds the state mutex while it is suspended in a write
\* to its own client.
C12_NoLockAcrossWrite ==
    \A s \in Sess : task[s].pc = "ayt_send" => lock # s

\* ------------------------------------------- the pure functions on their own

\* The parser, the renderer and the credential check applied to drawn inputs,
\* the way the unit tests of message.rs and clients.rs apply them: a test is
\* session task 1 with the test's locals, the other variables stay as Init
\* leaves them.

\* Longest argument list of a drawn line.
MaxArgs == 3
\* Longest record list handed to client_login_is_valid.
MaxRecords == 3

\* char::to_ascii_lowercase, for writing command tokens in lower case
LowerChar(c) ==
    IF \E i \in 1..Len(UpperAlpha) : UpperAlpha[i] = c
    THEN LowerAlpha[CHOOSE i \in 1..Len(UpperAlpha) : UpperAlpha[i] = c]
    ELSE c

to_ascii_lowercase(s) == [i \in 1..Len(s) |-> LowerChar(s[i])]

Commands == NoArgCommands \cup ArgCommands

\* Command tokens of drawn lines: every command in upper and in lower case,
\* one in mixed case, an unknown token and the empty token.
TestTokens ==
    Commands \cup {to_ascii_lowercase(t) : t \in Commands}
             \cup {<<"B","o","O","p">>, <<"F","O","O">>, <<>>}

\* Pieces between the single spaces of a drawn line: empty, plain, mixed
\* case, ending in a tab, an error code name.
TestPieces == {<<>>, <<"a">>, <<"B","c">>, <<"a","\t">>, T_NOT_AVAILABLE}

TestPieceLists == UNION {[1..n -> TestPieces] : n \in 0..MaxArgs}

RECURSIVE JoinPieces(_)
JoinPieces(ps) ==
    IF ps = <<>> THEN <<>> ELSE <<SP>> \o Head(ps) \o JoinPieces(Tail(ps))

\* The drawn lines: a token, its pieces after single spaces, with and
\* without the trailing newline.
TestLines ==
    {tok \o JoinPieces(ps) \o end :
        tok \in TestTokens, ps \in TestPieceLists, end \in {<<>>, <<NL>>}}

\* String arguments of drawn messages: non-empty, no space, no newline.
TestArgs == {<<"a">>, <<"B","c">>, <<"\t","a">>, <<"a","\t">>}

\* The drawn messages: all twelve variants, all four error kinds.
TestMessages ==
    {Msg(TypeOf(t), <<>>) : t \in NoArgCommands}
      \cup {Msg(t, <<x>>) : t \in {"BOOP", "AYT", "ONLINE", "AFK"}, x \in TestArgs}
      \cup {Msg("CONNECT", <<x, y>>) : x \in TestArgs, y \in TestArgs}
      \cup {ErrorMsg(k) : k \in MessageErrorKind}

\* The drawn record lists, keys, passwords.
TestRecords ==
    {[key |-> k, hash |-> h] :
        k \in {K_a, K_b}, h \in {HashOf(P_p), HashOf(P_q), BadHash}}

TestClients == UNION {[1..n -> TestRecords] : n \in 0..MaxRecords}

\* The locals of a test before its call.
RenderTest(m) == [Locals EXCEPT !.pc = "render", !.msg = m]
ParseTest(line) == [Locals EXCEPT !.pc = "parse", !.buf = line]
VerifyTest(key, password, clients) ==
    [pc |-> "verify", key |-> key, password |-> password,
     clients |-> clients, login_result |-> "None"]

UnitInit ==
    /\ \E t \in {RenderTest(m) : m \in TestMessages}
              \cup {ParseTest(line) : line \in TestLines}
              \cup {VerifyTest(k, p, cl) :
                      k \in {K_a, K_b}, p \in {P_p, P_q}, cl \in TestClients} :
          task = [s \in Sess |-> IF s = 1 THEN t ELSE Locals]
    /\ chan = [s \in Sess |-> <<>>]
    /\ out = [s \in Sess |-> <<>>]
    /\ connections = << >>
    /\ lock = 0
    /\ nread = 0

\* create_message_text(msg), the text kept to be parsed back
ApplyRender(s) ==
    /\ task[s].pc = "render"
    /\ task' = [task EXCEPT ![s].buf = create_message_text(task[s].msg),
                            ![s].pc = "parse"]
    /\ UNCHANGED <<chan, out, connections, lock, nread>>

\* parse_message(&buf)
ApplyParse(s) ==
    /\ task[s].pc = "parse"
    /\ task' = [task EXCEPT ![s].parse_result = parse_message(task[s].buf),
                            ![s].pc = "parsed"]
    /\ UNCHANGED <<chan, out, connections, lock, nread>>

\* client_login_is_valid(key, password, &clients)
ApplyVerify(s) ==
    /\ task[s].pc = "verify"
    /\ task' = [task EXCEPT
                  ![s].login_result =
                      client_login_is_valid(task[s].key, task[s].password,
                                            task[s].clients),
                  ![s].pc = "verified"]
    /\ UNCHANGED <<chan, out, connections, lock, nread>>

UnitNext ==
    \E s \in Sess :
        \/ ApplyRender(s)
        \/ ApplyParse(s)
        \/ ApplyVerify(s)

UnitSpec == UnitInit /\ [][UnitNext]_vars

\* The reading of a line the parse contract gives: one trailing newline taken
\* off, the rest cut at every single space; the first piece is the command,
\* matched without regard to case, the other pieces are the arguments.
LineBody(line) ==
    IF line # <<>> /\ line[Len(line)] = NL
    THEN SubSeq(line, 1, Len(line) - 1) ELSE line
CommandsLike(tok) ==
    {c \in Commands : to_ascii_lowercase(c) = to_ascii_lowercase(tok)}
CommandOf(line) ==
    LET tok == Head(split(LineBody(line)))
    IN  IF CommandsLike(tok) # {} THEN CHOOSE c \in CommandsLike(tok) : TRUE
        ELSE tok
ArgumentsOf(line) == Tail(split(LineBody(line)))
Arity(tok) ==
    IF tok = T_CONNECT THEN 2 ELSE IF tok \in ArgCommands THEN 1 ELSE 0
Parsed(s) == task[s].pc = "parsed"

\* C13: parse_message fails with UnknownMessageType when the command token is
\* not a command, with UnknownArguments when it is a command and the number
\* of arguments differs from its arity or one of the arguments is empty, and
\* no message it returns carries an empty argument.
C13_ParserFailures ==
    \A s \in Sess : Parsed(s) =>
        LET line == task[s].buf
            r    == task[s].parse_result
        IN  /\ CommandOf(line) \notin Commands =>
                  r = Err("UnknownMessageType")
            /\ (/\ CommandOf(line) \in Commands
                /\ \/ Len(ArgumentsOf(line)) # Arity(CommandOf(line))
                   \/ \E i \in DOMAIN ArgumentsOf(line) :
                         ArgumentsOf(line)[i] = <<>>) =>
                  r = Err("UnknownArguments")
            /\ r.ok => \A i \in DOMAIN r.msg.args : r.msg.args[i] # <<>>

\* a text that is one line: a single newline, at its end
OneLine(text) ==
    /\ text # <<>>
    /\ text[Len(text)] = NL
    /\ \A i \in 1..(Len(text) - 1) : text[i] # NL

\* the test rendered a drawn message and parsed the text back
Rendered(s) == Parsed(s) /\ task[s].msg # NoMsg

\* the last string argument of a message ends in a whitespace character
EndsInWhitespace(m) ==
    /\ m.args # <<>>
    /\ Last(m.args)[Len(Last(m.args))] \in Whitespace

WellFormedLine(line) ==
    /\ CommandOf(line) \in Commands
    /\ Len(ArgumentsOf(line)) = Arity(CommandOf(line))
    /\ \A i \in DOMAIN ArgumentsOf(line) : ArgumentsOf(line)[i] # <<>>

ErrorCodeNames ==
    {T_NOT_AVAILABLE, T_MALFORMED_COMMAND, T_MALFORMED_ARGUMENTS,
     T_PROTOCOL_MISMATCH}

\* the strings a message carries, an error kind by its code name
Carried(m) == IF m.type = "ERROR" THEN <<error_text(m.kind)>> ELSE m.args

\* the result is the variant of the line's command, carrying the line's
\* arguments as they stand
VariantOfLine(r, line) ==
    /\ r.ok
    /\ r.msg.type = TypeOf(CommandOf(line))
    /\ Carried(r.msg) = ArgumentsOf(line)

Verified(s) == task[s].pc = "verified"

\* the places of the records with this key
RecordsOf(key, clients) == {i \in 1..Len(clients) : clients[i].key = key}

\* C16: the outcome is decided by the first record with the key alone: Ok(true)
\* iff the verifier accepts the password against its hash, Ok(false) if it
\* rejects it or no record has the key, Err if its hash does not parse; the
\* records after it do not matter.
C16_FirstRecordDecides ==
    \A s \in Sess : Verified(s) =>
        LET key     == task[s].key
            pw      == task[s].password
            clients == task[s].clients
            r       == task[s].login_result
        IN  IF RecordsOf(key, clients) = {}
            THEN r = "OkFalse"
            ELSE LET i == CHOOSE j \in RecordsOf(key, clients) :
                              \A k \in RecordsOf(key, clients) : j <= k
                     h == clients[i].hash
                 IN  /\ ~h.parses => r = "Err"
                     /\ h.parses =>
                          /\ r = "OkTrue" <=> verify_password(pw, h)
                          /\ r = "OkFalse" <=> ~verify_password(pw, h)
                     /\ r = client_login_is_valid(key, pw, SubSeq(clients, 1, i))

\* C16 witness: the first record of the key rejects the password, a later
\* record of the same key would accept it, and the outcome is Ok(false);
\* or the first record's hash does not parse, a later one would accept, and
\* the outcome is Err.
C16_Witness ==
    \E s \in Sess :
        /\ Verified(s)
        /\ task[s].key = K_a /\ task[s].password = P_p
        /\ \/ /\ task[s].clients = << [key |-> K_b, hash |-> HashOf(P_p)],
                                      [key |-> K_a, hash |-> HashOf(P_q)],
                                      [key |-> K_a, hash |-> HashOf(P_p)] >>
              /\ task[s].login_result = "OkFalse"
           \/ /\ task[s].clients = << [key |-> K_a, hash |-> BadHash],
                                      [key |-> K_a, hash |-> HashOf(P_p)] >>
              /\ task[s].login_result = "Err"

Line_PONG == <<"P","O","N","G","\n">>
Line_ONLINE(k) == T_ONLINE \o <<SP>> \o k \o <<NL>>
Line_AFK(k) == T_AFK \o <<SP>> \o k \o <<NL>>

LoopPlaces == {"loop", "handle", "ayt_send"}

\* C17: in the event loop was_pinged goes from false to true only in the
\* step that handles PING and has written PONG; a step that handles BOOP or
\* AYT, or that writes a delivery, and stays in the loop leaves it as it was.
C17_OnlyPingRefreshes ==
    [][\A s \in Sess :
          /\ (InLoop(s) /\ ~task[s].was_pinged /\ task'[s].was_pinged) =>
                /\ Handling(s, "PING")
                /\ out'[s] = Append(out[s], Line_PONG)
          /\ (/\ \/ Handling(s, "BOOP")
                 \/ Handling(s, "AYT")
                 \/ task[s].pc = "ayt_send"
                 \/ (task[s].pc = "loop" /\ chan[s] # <<>>
                       /\ chan'[s] = Tail(chan[s]))
              /\ task'[s].pc \in LoopPlaces) =>
                task'[s].was_pinged = task[s].was_pinged
      ]_vars

\* C17 witness: the session was answered PONG, a tick cleared the flag, an
\* AYT was answered, and the flag is still clear: the next tick reaps it.
C17_Witness ==
    \E s \in Sess :
        /\ task[s].pc = "loop"
        /\ ~task[s].was_pinged
        /\ out[s] = <<Line_HEY, Line_PONG, Line_ONLINE(K_a)>>

\* the (identity, connection id) entries of a table
Entries(conns) == {e \in (DOMAIN conns) \X Sess : e[2] \in conns[e[1]]}

\* C18: an entry comes into the table only as the own entry of the session
\* that is attaching, and goes out of it only as the own entry of a session
\* that is leaving its event loop; every other entry stays; a step that
\* handles PING, BOOP or AYT or writes a delivery leaves the table as it is.
C18_OwnRowOnly ==
    [][/\ \A e \in Entries(connections') \ Entries(connections) :
             /\ task[e[2]].pc = "attach" /\ task'[e[2]].pc = "loop"
             /\ e[1] = task[e[2]].client_key
             /\ Entries(connections') = Entries(connections) \cup {e}
       /\ \A e \in Entries(connections) \ Entries(connections') :
             /\ InLoop(e[2]) /\ task'[e[2]].pc \in Returned
             /\ e[1] = task[e[2]].client_key
             /\ Entries(connections') = Entries(connections) \ {e}
       /\ \A s \in Sess :
             (/\ \/ Handling(s, "PING")
                 \/ Handling(s, "BOOP")
                 \/ Handling(s, "AYT")
                 \/ task[s].pc = "ayt_send"
                 \/ /\ task[s].pc = "loop" /\ chan[s] # <<>>
                    /\ \/ task'[s].pc = "loop" /\ chan'[s] = Tail(chan[s])
                       \/ task'[s].pc = "ret_recv_write_err"
              /\ (task'[s] # task[s] \/ chan'[s] # chan[s])) =>
                connections' = connections
      ]_vars

\* C18 witness: two sessions of one identity are attached side by side, each
\* under its own id: the attach of the second left the entry of the first.
C18_Witness ==
    \E s, t \in Sess :
        /\ s # t
        /\ task[s].pc = "loop" /\ task[t].pc = "loop"
        /\ task[s].client_key = task[t].client_key
        /\ connections = (task[s].client_key :> {s, t})

Line_BOOP(k) == T_BOOP \o <<SP>> \o k \o <<NL>>

\* the partner named by the AYT line the task holds in buf
AskedPartner(s) == task[s].parse_result.msg.args[1]

\* C19: in the event loop a PING in hand is answered by one PONG and an AYT
\* in hand by one ONLINE or AFK naming the partner asked for, after which
\* the task is back in the loop, attached (or the write failed and the task
\* returned with nothing written); a PONG, ONLINE or AFK is written only as
\* such an answer; the task reads its next line only from the loop, when no
\* request is in hand; and what was written to a client stays in front of
\* what is written later.
C19_AnsweredInOrder ==
    [][\A s \in Sess :
          /\ \/ out'[s] = out[s]
             \/ /\ Len(out'[s]) = Len(out[s]) + 1
                /\ SubSeq(out'[s], 1, Len(out[s])) = out[s]
          /\ (Handling(s, "PING") /\ task'[s] # task[s]) =>
                \/ /\ out'[s] = Append(out[s], Line_PONG)
                   /\ task'[s].pc = "loop"
                   /\ Attached(s)'
                \/ /\ out'[s] = out[s]
                   /\ task'[s].pc = "ret_pong_write_err"
          /\ (Handling(s, "AYT") /\ task'[s] # task[s]) =>
                /\ out'[s] = out[s]
                /\ task'[s].pc = "ayt_send"
                /\ task'[s].parse_result = task[s].parse_result
          /\ (task[s].pc = "ayt_send" /\ task'[s] # task[s]) =>
                \/ /\ out'[s] \in
                        {Append(out[s], Line_ONLINE(AskedPartner(s))),
                         Append(out[s], Line_AFK(AskedPartner(s)))}
                   /\ task'[s].pc = "loop"
                   /\ Attached(s)'
                \/ /\ out'[s] = out[s]
                   /\ task'[s].pc = "ret_ayt_write_err"
          /\ (out'[s] # out[s] /\ Last(out'[s]) = Line_PONG) =>
                Handling(s, "PING")
          /\ (out'[s] # out[s]
                /\ \E k \in {K_a, K_b, K_c} :
                      Last(out'[s]) \in {Line_ONLINE(k), Line_AFK(k)}) =>
                task[s].pc = "ayt_send"
          /\ (task'[s].pc = "handle" /\ task'[s] # task[s]) =>
                task[s].pc = "loop"
      ]_vars

\* C19 witness: the session sent BOOP to its own identity and then PING; the
\* PONG was written first, the BOOP delivery after it; the session is in the
\* loop and attached.
C19_Witness ==
    \E s \in Sess :
        /\ task[s].pc = "loop"
        /\ Attached(s)
        /\ out[s] = <<Line_HEY, Line_PONG, Line_BOOP(K_a)>>

\* ------------------------------------------ lines that arrive in fragments

\* The session task with the bytes of a line arriving in two parts.  Two
\* more locals: partial, the bytes the pending read_line future of this loop
\* iteration has taken from the reader, and rest, the bytes of that line
\* still on their way.  select! drops the futures of the arms it did not
\* select, the read_line future with what it holds included, and the next
\* iteration calls read_line anew with an empty buf.
FragLocals == [partial |-> <<>>, rest |-> <<>>] @@ Locals

FragInit ==
    /\ task = [s \in Sess |-> FragLocals]
    /\ chan = [s \in Sess |-> <<>>]
    /\ out = [s \in Sess |-> <<>>]
    /\ connections = << >>
    /\ lock = 0
    /\ nread = 0

\* the loop waits in select! and read_line holds no bytes
NoPartial(s) == task[s].pc = "loop" /\ task[s].partial = <<>>

\* the loop waits in select! between two lines
BetweenLines(s) == NoPartial(s) /\ task[s].rest = <<>>

\* the first n bytes of a line arrive: read_line takes them and stays pending
ReadPart(s, line, n) ==
    /\ BetweenLines(s)
    /\ nread < MaxLines
    /\ nread' = nread + 1
    /\ task' = [task EXCEPT ![s].partial = SubSeq(line, 1, n),
                            ![s].rest = SubSeq(line, n + 1, Len(line))]
    /\ UNCHANGED <<chan, out, connections, lock>>

\* the bytes up to the newline arrive: read_line returns what it holds and
\* these bytes as the line
ReadRest(s) ==
    /\ task[s].pc = "loop"
    /\ task[s].rest # <<>>
    /\ task' = [task EXCEPT
                  ![s].buf = task[s].partial \o task[s].rest,
                  ![s].parse_result =
                      parse_message(task[s].partial \o task[s].rest),
                  ![s].partial = <<>>,
                  ![s].rest = <<>>,
                  ![s].pc = "handle"]
    /\ UNCHANGED <<chan, out, connections, lock, nread>>

\* watchdog.tick() selected while read_line holds bytes
TickDropsRead(s) ==
    /\ task[s].pc = "loop"
    /\ task[s].partial # <<>>
    /\ task[s].was_pinged
    /\ task' = [task EXCEPT ![s].was_pinged = FALSE, ![s].partial = <<>>]
    /\ UNCHANGED <<chan, out, connections, lock, nread>>

\* rx.recv() selected while read_line holds bytes
RecvDropsRead(s, written) ==
    /\ task[s].pc = "loop"
    /\ task[s].partial # <<>>
    /\ chan[s] # <<>>
    /\ out' = send_message(s, Head(chan[s]), written)
    /\ IF written
       THEN /\ chan' = [chan EXCEPT ![s] = Tail(@)]
            /\ task' = [task EXCEPT ![s].partial = <<>>]
       ELSE /\ chan' = [chan EXCEPT ![s] = <<>>]
            /\ task' = [task EXCEPT ![s] = Return("ret_recv_write_err")]
    /\ UNCHANGED <<connections, lock, nread>>

FragNext ==
    \E s \in Sess :
        \/ HsReadErr(s)
        \/ HsEof(s)
        \/ \E line \in ClientLines : HsRead(s, line)
        \/ \E written \in BOOLEAN : HsParseError(s, written)
        \/ \E written \in BOOLEAN : HsNotConnect(s, written)
        \/ \E written \in BOOLEAN : HsLoginWrong(s, written)
        \/ \E written \in BOOLEAN : HsLoginCorrect(s, written)
        \/ AddConnection(s)
        \/ NoPartial(s) /\ Tick(s)
        \/ TickDropsRead(s)
        \/ \E shut_ok \in BOOLEAN : TickAfk(s, shut_ok)
        \/ BetweenLines(s) /\ ReadEof(s)
        \/ BetweenLines(s) /\ ReadErr(s)
        \/ \E line \in ClientLines : BetweenLines(s) /\ ReadLine(s, line)
        \/ \E line \in ClientLines :
              \E n \in 1..(Len(line) - 1) : ReadPart(s, line, n)
        \/ ReadRest(s)
        \/ \E written \in BOOLEAN : Disconnect(s, written)
        \/ \E written \in BOOLEAN : Ping(s, written)
        \/ Boop(s)
        \/ AytLookup(s)
        \/ \E written \in BOOLEAN : AytSend(s, written)
        \/ \E written \in BOOLEAN : ProtocolError(s, written)
        \/ \E written \in BOOLEAN : NoPartial(s) /\ Recv(s, written)
        \/ \E written \in BOOLEAN : RecvDropsRead(s, written)

FragSpec == FragInit /\ [][FragNext]_vars

\* C20: every line the task hands to parse_message in its event loop is a
\* whole line as the client sent it.
C20_WholeLines ==
    \A s \in Sess :
        task[s].pc \in {"handle", "ayt_send"} => task[s].buf \in ClientLines

\* the partner named by the BOOP line the task holds in buf
BoopPartner(s) == task[s].parse_result.msg.args[1]

\* C21: a message is put on a delivery channel only by the BOOP arm of a
\* session, it is BOOP carrying that session's client_key, the key of its
\* CONNECT line that client_login_is_valid accepted, and it goes to a handle
\* stored under the partner named in the request; a BOOP line is written to
\* a client only as the rendering of the message at the head of its own
\* channel.
C21_SenderNotForged ==
    [][\A t \in Sess :
          /\ Len(chan'[t]) > Len(chan[t]) =>
                \E s \in Sess :
                    /\ Handling(s, "BOOP")
                    /\ task'[s].pc = "loop"
                    /\ chan'[t] = Append(chan[t],
                                         Msg("BOOP", <<task[s].client_key>>))
                    /\ task[s].parser_res =
                          Ok(Msg("CONNECT", <<task[s].client_key,
                                              task[s].parser_res.msg.args[2]>>))
                    /\ task[s].login_result = "OkTrue"
                    /\ client_login_is_valid(task[s].client_key,
                                             task[s].parser_res.msg.args[2],
                                             Clients) = "OkTrue"
                    /\ BoopPartner(s) \in DOMAIN connections
                    /\ t \in connections[BoopPartner(s)]
          /\ (/\ out'[t] # out[t]
              /\ \E k \in {K_a, K_b, K_c} : Last(out'[t]) = Line_BOOP(k)) =>
                /\ task[t].pc = "loop"
                /\ chan[t] # <<>>
                /\ Head(chan[t]).type = "BOOP"
                /\ out'[t] = Append(out[t],
                                    Line_BOOP(Head(chan[t]).args[1]))
      ]_vars

\* C21 witness: a session attached as a was written 'BOOP b': the session
\* authenticated as b asked for partner a, and the line names b.
C21_Witness ==
    \E s, t \in Sess :
        /\ task[t].pc = "loop" /\ task[t].client_key = K_a
        /\ task[s].pc = "loop" /\ task[s].client_key = K_b
        /\ out[t] = <<Line_HEY, Line_BOOP(K_b)>>

\* the task returned from the watchdog arm
Reaped(pc) == pc \in {"ret_afk", "ret_afk_shutdown_err"}

\* C22: a session enters its event loop with was_pinged set; the tick handled
\* with the flag set clears it and the session goes on, nothing written and
\* the table untouched, so the first tick never ends the session; the
\* watchdog arm ends a session only with the flag clear; and as long as no
\* PING is handled a clear flag stays clear, so for a session that never
\* sends PING the first tick handled clears the flag and the second ends it.
\* (Ticks are counted as the task handles them; the model has no clock.)
C22_SecondTickReaps ==
    [][\A s \in Sess :
          /\ (task[s].pc = "attach" /\ task'[s].pc = "loop") =>
                task'[s].was_pinged
          /\ (/\ task[s].pc = "loop" /\ task[s].was_pinged
              /\ task'[s].pc = "loop" /\ ~task'[s].was_pinged) =>
                /\ out'[s] = out[s]
                /\ connections' = connections
                /\ task' = [task EXCEPT ![s].was_pinged = FALSE]
          /\ Reaped(task'[s].pc) =>
                \/ Reaped(task[s].pc)
                \/ task[s].pc = "loop" /\ ~task[s].was_pinged
          /\ (task[s].pc = "loop" /\ task[s].was_pinged) =>
                ~Reaped(task'[s].pc)
          /\ (/\ InLoop(s) /\ ~task[s].was_pinged
              /\ ~Handling(s, "PING")
              /\ task'[s].pc \in LoopPlaces) =>
                ~task'[s].was_pinged
      ]_vars

\* C22 witness: two sessions were answered HEY and nothing else; one has
\* handled its first tick and waits in the loop with the flag clear, the
\* other has handled its second tick and was reaped.
C22_Witness ==
    \E s, t \in Sess :
        /\ task[s].pc = "loop" /\ ~task[s].was_pinged
        /\ out[s] = <<Line_HEY>>
        /\ task[t].pc = "ret_afk"
        /\ out[t] = <<Line_HEY>>

\* C23: handling a PING whose PONG is written sets was_pinged; a set flag is
\* cleared only by a tick, which does nothing else, and by no BOOP, AYT or
\* delivery step; and the watchdog arm ends the session only when it finds
\* the flag clear.  So a tick that follows a handled PING, with no other
\* tick between them, never ends the session.
C23_PingerNotReaped ==
    [][\A s \in Sess :
          /\ (/\ Handling(s, "PING")
              /\ out'[s] = Append(out[s], Line_PONG)) =>
                (task'[s].pc = "loop" /\ task'[s].was_pinged)
          /\ (/\ InLoop(s) /\ task[s].was_pinged
              /\ task'[s].pc \in LoopPlaces /\ ~task'[s].was_pinged) =>
                /\ task[s].pc = "loop"
                /\ task' = [task EXCEPT ![s].was_pinged = FALSE]
                /\ UNCHANGED <<chan, out, connections, lock, nread>>
          /\ (InLoop(s) /\ task[s].was_pinged) => ~Reaped(task'[s].pc)
      ]_vars

\* C23 witness: the session was answered PONG and then ONLINE and its flag is
\* still set: the next tick clears the flag and the session goes on.
C23_Witness ==
    \E s \in Sess :
        /\ task[s].pc = "loop"
        /\ task[s].was_pinged
        /\ Attached(s)
        /\ out[s] = <<Line_HEY, Line_PONG, Line_ONLINE(K_a)>>

\* ----------------------------------------- deliveries from two identities

\* The session tasks from the moment the first of them has logged in as a
\* and stands in its event loop, attached and answered HEY; nread counts the
\* lines read from then on.  The other tasks have read nothing yet, so a
\* second identity can log in and both can send BOOP to a.
LoggedIn(key, password) ==
    [Locals EXCEPT !.pc = "loop",
                   !.cmd_buffer = L_CONNECT(key, password),
                   !.parser_res = parse_message(L_CONNECT(key, password)),
                   !.login_result =
                       client_login_is_valid(key, password, Clients),
                   !.client_key = key,
                   !.was_pinged = TRUE]

FifoInit ==
    /\ task = [s \in Sess |-> IF s = 1 THEN LoggedIn(K_a, P_p) ELSE Locals]
    /\ chan = [s \in Sess |-> <<>>]
    /\ out = [s \in Sess |-> IF s = 1 THEN <<Line_HEY>> ELSE <<>>]
    /\ connections = (K_a :> {1})
    /\ lock = 0
    /\ nread = 0

FifoSpec == FifoInit /\ [][Next]_vars

\* the state FifoInit starts from, as Spec reaches it after one line
FifoStart ==
    /\ task[1] = LoggedIn(K_a, P_p)
    /\ \A s \in Sess \ {1} : task[s] = Locals
    /\ chan = [s \in Sess |-> <<>>]
    /\ out = [s \in Sess |-> IF s = 1 THEN <<Line_HEY>> ELSE <<>>]
    /\ connections = (K_a :> {1})
    /\ lock = 0

\* C24: a delivery channel is a queue: a message is put at its end, once; the
\* message written to the client is the one at its front, written once, to
\* the client of the task that owns the channel and to no other, and taken
\* off as it is written; a message leaves the channel unwritten only when
\* the owning task returns.  So what was routed to a session earlier is
\* written to its client earlier.
C24_DeliveriesFifo ==
    [][\A t \in Sess :
          /\ Len(chan'[t]) > Len(chan[t]) =>
                /\ Len(chan'[t]) = Len(chan[t]) + 1
                /\ SubSeq(chan'[t], 1, Len(chan[t])) = chan[t]
                /\ out' = out
          /\ (Len(chan'[t]) < Len(chan[t]) /\ task'[t].pc \notin Returned) =>
                /\ chan'[t] = Tail(chan[t])
                /\ out' = [out EXCEPT ![t] =
                             Append(@, create_message_text(Head(chan[t])))]
                /\ \A u \in Sess \ {t} : chan'[u] = chan[u]
          /\ (/\ out'[t] # out[t]
              /\ \E k \in {K_a, K_b, K_c} : Last(out'[t]) = Line_BOOP(k)) =>
                /\ task[t].pc = "loop"
                /\ chan[t] # <<>>
                /\ chan'[t] = Tail(chan[t])
                /\ out'[t] = Append(out[t], create_message_text(Head(chan[t])))
          /\ (Len(chan'[t]) = Len(chan[t]) /\ task'[t].pc \notin Returned) =>
                chan'[t] = chan[t]
      ]_vars

\* C24 witness: BOOP from b was routed to the session of a and written to its
\* client, the BOOP the session of a sent to its own identity after that is
\* still in the channel, behind it.
C24_Witness ==
    \E s \in Sess :
        /\ task[s].pc = "loop" /\ task[s].client_key = K_a
        /\ out[s] = <<Line_HEY, Line_BOOP(K_b)>>
        /\ chan[s] = <<Msg("BOOP", <<K_a>>)>>

====
